---- MODULE Spec2Model ----
(***************************************************************************)
(* gop: a Go packaging and release script (package main, one process).     *)
(* main() runs projectInfo, changes, then pack() when -p is given and      *)
(* release() when -r is given.  Strings are modelled as sequences of       *)
(* one-character strings so that Fields, Split, Ext, TrimSuffix, ToLower   *)
(* and Join are computed the way the Go library computes them.  The file   *)
(* system and the external commands (gox, go, gh, git) are the             *)
(* environment: their contents and outcomes are chosen nondeterministically*)
(* from small sets.  The model follows the revision of the program whose   *)
(* pack() runs one goroutine per binary and whose release() rolls back a   *)
(* failed upload.                                                          *)
(***************************************************************************)
EXTENDS Integers, Sequences, FiniteSets, TLC

VARIABLES
    pc,          \* position of the main goroutine
    exit,        \* process exit status: "none" while running, "0", "1", "panic"
    packFlag,    \* -p
    releaseFlag, \* -r
    prerelease,  \* -pre
    manifest,    \* go.mod on disk: [exists, lines]
    modulePath,  \* global modulePath
    projectName, \* global projectName
    logFile,     \* CHANGELOG.md on disk: [exists, lines]
    version,     \* global version
    changelog,   \* global changelog (the release notes)
    vendor,      \* the vendor tree after "go mod vendor": a set of file paths
    rootDir,     \* file names of the project root, in directory-listing order
    files,       \* pack()'s map "files": zip entry path -> source path
    binaries,    \* result of ReadDir(binDir): file names, sorted
    launched,    \* number of goroutines pack() has started
    tpc,         \* per goroutine: index of its next step in TaskSteps
    zw,          \* per goroutine: entries written to its zip.Writer
    dist,        \* the dist directory: zip file name -> entries on disk
    wg,          \* the sync.WaitGroup counter
    cmds,        \* external commands run so far, with their outcome
    assets,      \* release()'s local "assets": the dist listing it read
    msgs,        \* diagnostic messages printed so far
    tmp          \* the temp*.md notes file: "none", "present", "removed"

vars == <<pc, exit, packFlag, releaseFlag, prerelease, manifest, modulePath,
          projectName, logFile, version, changelog, vendor, rootDir, files,
          binaries, launched, tpc, zw, dist, wg, cmds, assets, msgs, tmp>>

----------------------------------------------------------------------------
(* Bounds of the model.                                                    *)

MaxManifestLines == 3
MaxLogLines == 4
MaxVendorFiles == 2
MaxBins == 2

----------------------------------------------------------------------------
(* Strings: sequences of characters.                                       *)

NL == "\n"

\* unicode.IsSpace on the characters the inputs use
IsSpace(c) == c \in {" ", "\t", NL}

RECURSIVE FieldsFrom(_, _, _, _)
FieldsFrom(s, i, cur, acc) ==
    IF i > Len(s)
    THEN IF cur = <<>> THEN acc ELSE Append(acc, cur)
    ELSE IF IsSpace(s[i])
         THEN FieldsFrom(s, i + 1, <<>>, IF cur = <<>> THEN acc ELSE Append(acc, cur))
         ELSE FieldsFrom(s, i + 1, Append(cur, s[i]), acc)

\* strings.Fields: the maximal runs of non-space characters
Fields(s) == FieldsFrom(s, 1, <<>>, <<>>)

RECURSIVE SplitFrom(_, _, _, _, _)
SplitFrom(s, sep, i, cur, acc) ==
    IF i > Len(s)
    THEN Append(acc, cur)
    ELSE IF s[i] = sep
         THEN SplitFrom(s, sep, i + 1, <<>>, Append(acc, cur))
         ELSE SplitFrom(s, sep, i + 1, Append(cur, s[i]), acc)

\* strings.Split on a one-character separator (empty pieces are kept)
Split(s, sep) == SplitFrom(s, sep, 1, <<>>, <<>>)

RECURSIVE TrimLeft(_)
TrimLeft(s) == IF s # <<>> /\ IsSpace(Head(s)) THEN TrimLeft(Tail(s)) ELSE s

RECURSIVE TrimRight(_)
TrimRight(s) ==
    IF s # <<>> /\ IsSpace(s[Len(s)]) THEN TrimRight(SubSeq(s, 1, Len(s) - 1)) ELSE s

\* strings.TrimSpace
TrimSpace(s) == TrimRight(TrimLeft(s))

\* strings.HasSuffix
HasSuffix(s, suf) ==
    /\ Len(suf) <= Len(s)
    /\ SubSeq(s, Len(s) - Len(suf) + 1, Len(s)) = suf

\* strings.TrimSuffix: removes one occurrence of suf at the end, if present
TrimSuffix(s, suf) ==
    IF HasSuffix(s, suf) THEN SubSeq(s, 1, Len(s) - Len(suf)) ELSE s

UpperChars == <<"A", "B", "C", "D", "E", "F", "G", "H", "I", "J", "K", "L", "M",
                "N", "O", "P", "Q", "R", "S", "T", "U", "V", "W", "X", "Y", "Z">>
LowerChars == <<"a", "b", "c", "d", "e", "f", "g", "h", "i", "j", "k", "l", "m",
                "n", "o", "p", "q", "r", "s", "t", "u", "v", "w", "x", "y", "z">>

ToLowerChar(c) ==
    IF \E i \in DOMAIN UpperChars : UpperChars[i] = c
    THEN LowerChars[CHOOSE i \in DOMAIN UpperChars : UpperChars[i] = c]
    ELSE c

\* strings.ToLower
ToLower(s) == [i \in DOMAIN s |-> ToLowerChar(s[i])]

\* filepath.Ext of a file name: the suffix starting at the last dot, else ""
Ext(name) ==
    LET dots == {i \in DOMAIN name : name[i] = "."}
    IN  IF dots = {} THEN <<>>
        ELSE SubSeq(name, CHOOSE i \in dots : \A j \in dots : j <= i, Len(name))

RECURSIVE Join(_, _)
\* strings.Join
Join(parts, sep) ==
    IF parts = <<>> THEN <<>>
    ELSE IF Len(parts) = 1 THEN parts[1]
    ELSE parts[1] \o sep \o Join(Tail(parts), sep)

\* All sequences over S of length at most n
SeqsUpTo(S, n) == UNION {[1..k -> S] : k \in 0..n}

----------------------------------------------------------------------------
(* Process termination.                                                    *)

Running == exit = "none"

\* logErr.Fatal / os.Exit(code): the process ends at once, deferred calls
\* do not run
ExitWith(code) == pc' = "exited" /\ exit' = code

\* main returns: the process ends with status 0
MainReturns == pc' = "returned" /\ exit' = "0"

----------------------------------------------------------------------------
(* projectInfo                                                              *)

ModuleWord == <<"m", "o", "d", "u", "l", "e">>

RECURSIVE ScanManifest(_, _)
\* The scanner loop of projectInfo from line i on.  fields[0] on a line with
\* no fields, and fields[1] on a line with the single field "module", index
\* out of range: the Go runtime panics.
ScanManifest(lines, i) ==
    IF i > Len(lines)
    THEN [status |-> "eof"]
    ELSE LET fields == Fields(lines[i])
         IN  IF fields = <<>>
             THEN [status |-> "panic"]
             ELSE IF fields[1] = ModuleWord
                  THEN IF Len(fields) < 2
                       THEN [status |-> "panic"]
                       ELSE LET a == Split(fields[2], "/")
                            IN  [status |-> "found",
                                 modulePath |-> fields[2],
                                 projectName |-> a[Len(a)]]
                  ELSE ScanManifest(lines, i + 1)

ProjectInfo ==
    /\ Running
    /\ pc = "projectInfo"
    /\ IF ~manifest.exists
       THEN /\ ExitWith("1")
            /\ msgs' = Append(msgs, "Please generate mod file")
            /\ UNCHANGED <<modulePath, projectName>>
       ELSE LET r == ScanManifest(manifest.lines, 1)
            IN  /\ msgs' = msgs
                /\ CASE r.status = "panic" ->
                          /\ ExitWith("panic")
                          /\ UNCHANGED <<modulePath, projectName>>
                     [] r.status = "found" ->
                          /\ pc' = "changes"
                          /\ exit' = exit
                          /\ modulePath' = r.modulePath
                          /\ projectName' = r.projectName
                     [] r.status = "eof" ->
                          /\ pc' = "changes"
                          /\ exit' = exit
                          /\ UNCHANGED <<modulePath, projectName>>
    /\ UNCHANGED <<packFlag, releaseFlag, prerelease, manifest, logFile, version,
                   changelog, vendor, rootDir, files, binaries, launched, tpc, zw,
                   dist, wg, cmds, assets, tmp>>

----------------------------------------------------------------------------
(* changes                                                                  *)

\* The heading test of changes: len(t) > 2 && t[0:2] == "# "
IsHeading(t) == Len(t) > 2 /\ SubSeq(t, 1, 2) = <<"#", " ">>

RECURSIVE ScanLog(_, _, _, _, _)
\* The scanner loop of changes from line i on: in is the toggle, b the
\* strings.Builder, ver the version global.
ScanLog(lines, i, in, b, ver) ==
    IF i > Len(lines)
    THEN [version |-> ver, b |-> b]
    ELSE LET t == lines[i]
         IN  IF IsHeading(t)
             THEN IF in
                  THEN [version |-> ver, b |-> b]
                  ELSE ScanLog(lines, i + 1, TRUE, b, TrimSpace(Tail(t)))
             ELSE ScanLog(lines, i + 1, in, b \o t \o <<NL>>, ver)

Changes ==
    /\ Running
    /\ pc = "changes"
    /\ IF ~logFile.exists
       THEN /\ ExitWith("1")
            /\ msgs' = Append(msgs, "Please add CHANGELOG.md")
            /\ UNCHANGED <<version, changelog>>
       ELSE LET r == ScanLog(logFile.lines, 1, FALSE, <<>>, version)
            IN  /\ msgs' = msgs
                /\ version' = r.version
                /\ changelog' = TrimSuffix(r.b, <<NL>>)
                /\ IF packFlag THEN pc' = "pack" /\ exit' = exit
                   ELSE IF releaseFlag THEN pc' = "release" /\ exit' = exit
                   ELSE MainReturns
    /\ UNCHANGED <<packFlag, releaseFlag, prerelease, manifest, modulePath,
                   projectName, logFile, vendor, rootDir, files, binaries,
                   launched, tpc, zw, dist, wg, cmds, assets, tmp>>

----------------------------------------------------------------------------
(* Paths: sequences of file names.  The license collector.                  *)

distDir == <<"d", "i", "s", "t">>
binDir == <<"b", "i", "n">>
packLicDir == <<"l", "i", "c", "e", "n", "s", "e", "s", "-", "a", "n", "d", "-",
                "n", "o", "t", "i", "c", "e", "s">>
packReadmeName == <<"r", "e", "a", "d", "m", "e", ".", "t", "x", "t">>
vendorDir == <<"v", "e", "n", "d", "o", "r">>

noWalk == {<<"e", "x", "a", "m", "p", "l", "e", "s">>,
           <<"a", "s", "s", "e", "t", "s">>,
           <<"d", "i", "s", "t">>,
           <<"b", "i", "n">>,
           <<"s", "r", "c">>,
           <<".", "g", "o">>}

\* filepath.Dir and filepath.Base of a relative path; the parent of a single
\* name is ".", whose base is "."
Dir(path) == IF Len(path) <= 1 THEN <<<<".">>>> ELSE SubSeq(path, 1, Len(path) - 1)
Base(path) == path[Len(path)]

\* The characters of the inputs in byte order
ByteOrder == <<" ", "#", "-", ".", "/", "0", "1">> \o UpperChars \o LowerChars

Rank(c) == CHOOSE i \in DOMAIN ByteOrder : ByteOrder[i] = c

RECURSIVE LessStr(_, _)
\* s < t as Go strings (byte-wise)
LessStr(s, t) ==
    IF t = <<>> THEN FALSE
    ELSE IF s = <<>> THEN TRUE
    ELSE IF Head(s) = Head(t) THEN LessStr(Tail(s), Tail(t))
    ELSE Rank(Head(s)) < Rank(Head(t))

RECURSIVE SortNames(_)
\* The names of a directory in the order ReadDir / Walk list them
SortNames(S) ==
    IF S = {} THEN <<>>
    ELSE LET m == CHOOSE x \in S : \A y \in S \ {x} : LessStr(x, y)
         IN  <<m>> \o SortNames(S \ {m})

IsPrefix(p, q) == Len(p) < Len(q) /\ SubSeq(q, 1, Len(p)) = p

\* A path is a directory of the tree when some file lies below it
IsDir(tree, path) == \E q \in tree : IsPrefix(path, q)

ChildNames(tree, path) == {q[Len(path) + 1] : q \in {r \in tree : IsPrefix(path, r)}}

MapPut(f, k, v) == [x \in DOMAIN f \cup {k} |-> IF x = k THEN v ELSE f[x]]

LicenseNames == {<<"l", "i", "c", "e", "n", "s", "e">>,
                 <<"c", "o", "p", "y", "i", "n", "g">>,
                 <<"n", "o", "t", "i", "c", "e">>}

isLicense(fname) == ToLower(TrimSuffix(fname, Ext(fname))) \in LicenseNames

\* The target base name with parent and grandparent exchanged
TargetBaseSwapped(path) ==
    LET name == ToLower(Base(path))
        pName == Base(Dir(path))
        gpName == Base(Dir(Dir(path)))
    IN  Join(<<pName, gpName, name>>, <<"-">>)

\* The target base name collect gives the license file at path:
\* <grandparent>-<parent>-<lower-cased file name>
TargetBase(path) ==
    LET name == ToLower(Base(path))
        pPath == Dir(path)
        pName == Base(pPath)
        gpPath == Dir(pPath)
        gpName == Base(gpPath)
    IN  Join(<<gpName, pName, name>>, <<"-">>)

\* The closure collect passes to funcWalk
collectFn(path, fs) ==
    IF isLicense(ToLower(Base(path)))
    THEN MapPut(fs, <<packLicDir, TargetBase(path)>>, path)
    ELSE fs

\* The closure funcWalk passes to filepath.Walk: what it returns and the map
\* after it.  Directories return nil before the exclusion test is reached.
walkFn(path, isDir, fs) ==
    IF isDir
    THEN [ret |-> "nil", files |-> fs]
    ELSE LET a == Base(path) \in noWalk
             b == Ext(Base(path)) \in noWalk
         IN  IF a \/ b
             THEN [ret |-> IF isDir THEN "SkipDir" ELSE "nil", files |-> fs]
             ELSE [ret |-> "nil", files |-> collectFn(path, fs)]

RECURSIVE WalkPath(_, _, _), WalkNames(_, _, _, _)
\* filepath.Walk's walk(path): the callback on the entry, then, for a
\* directory the callback did not skip, its entries in lexical order.
WalkPath(tree, path, fs) ==
    LET r == walkFn(path, IsDir(tree, path), fs)
    IN  IF ~IsDir(tree, path) \/ r.ret # "nil"
        THEN r
        ELSE WalkNames(tree, path, SortNames(ChildNames(tree, path)), r.files)

\* The loop over a directory's names: SkipDir from a directory is swallowed,
\* SkipDir from a file ends the loop and is returned
WalkNames(tree, path, names, fs) ==
    IF names = <<>>
    THEN [ret |-> "nil", files |-> fs]
    ELSE LET child == Append(path, Head(names))
             r == WalkPath(tree, child, fs)
         IN  IF r.ret # "nil" /\ ~IsDir(tree, child)
             THEN r
             ELSE WalkNames(tree, path, Tail(names), r.files)

\* funcWalk(dir, f) with f the closure of collect: the map after the walk
funcWalk(tree, dir, fs) == WalkPath(tree, dir, fs).files

\* collect(files, vend): no-op when vend does not exist
collect(tree, fs) == IF tree = {} THEN fs ELSE funcWalk(tree, <<vendorDir>>, fs)

\* collectProjectLicense: the first license-like name of the root listing,
\* "" when there is none
collectProjectLicense(listing) ==
    LET hits == {i \in DOMAIN listing : isLicense(listing[i])}
    IN  IF hits = {} THEN <<>>
        ELSE listing[CHOOSE i \in hits : \A j \in hits : i <= j]

----------------------------------------------------------------------------
(* pack: the sequential part                                                *)

EmptyMap == [x \in {} |-> <<>>]

\* File names gox may leave in bin: <dir>-<os>[.exe], for the source folders
\* "y" and "x.y"
BinNames == {<<"y", "-", "l">>,
             <<"y", "-", "w", ".", "e", "x", "e">>,
             <<"x", ".", "y", "-", "d">>,
             <<"x", ".", "y", "-", "l">>}

\* The listings ReadDir(binDir) can return: sorted by file name
BinLists == {SortNames(S) : S \in {T \in SUBSET BinNames : Cardinality(T) <= MaxBins}}

\* mkdirOrTruncate(distDir), mkdirOrTruncate(binDir), runGox(binDir) and
\* ReadDir(binDir).  A failed Mkdir or ReadDir and a missing gox are fatal; a
\* failing gox run is only reported.
PackBuild ==
    /\ Running
    /\ pc = "pack"
    /\ \/ /\ \E m \in {"mkdir failed", "Please install gox before packaging"} :
                msgs' = Append(msgs, m)
          /\ ExitWith("1")
          /\ dist' = EmptyMap
          /\ UNCHANGED <<binaries, cmds>>
       \/ \E goxOk \in BOOLEAN, bs \in BinLists :
            /\ dist' = EmptyMap
            /\ cmds' = Append(cmds, [cmd |-> "gox", ok |-> goxOk])
            /\ msgs' = IF goxOk THEN msgs ELSE Append(msgs, "gox errors")
            /\ binaries' = bs
            /\ pc' = "vendor"
            /\ exit' = exit
    /\ UNCHANGED <<packFlag, releaseFlag, prerelease, manifest, modulePath,
                   projectName, logFile, version, changelog, vendor, rootDir,
                   files, launched, tpc, zw, wg, assets, tmp>>

\* exec.Command("go", "mod", "vendor").Run()
PackVendor ==
    /\ Running
    /\ pc = "vendor"
    /\ \E ok \in BOOLEAN :
         /\ cmds' = Append(cmds, [cmd |-> "go mod vendor", ok |-> ok])
         /\ IF ok THEN pc' = "collect" /\ exit' = exit /\ msgs' = msgs
            ELSE ExitWith("1") /\ msgs' = Append(msgs, "go mod vendor failed")
    /\ UNCHANGED <<packFlag, releaseFlag, prerelease, manifest, modulePath,
                   projectName, logFile, version, changelog, vendor, rootDir,
                   files, binaries, launched, tpc, zw, dist, wg, assets, tmp>>

\* files := make(map); collect(files, "vendor"); the project license
Collect ==
    /\ Running
    /\ pc = "collect"
    /\ LET fs == collect(vendor, EmptyMap)
           lic == collectProjectLicense(rootDir)
           licName == projectName \o <<"-">> \o ToLower(lic)
       IN  IF lic # <<>>
           THEN /\ files' = MapPut(fs, <<packLicDir, licName>>, <<lic>>)
                /\ msgs' = msgs
           ELSE /\ files' = fs
                /\ msgs' = Append(msgs, "Packaging without license")
    /\ pc' = "launch"
    /\ UNCHANGED <<exit, packFlag, releaseFlag, prerelease, manifest, modulePath,
                   projectName, logFile, version, changelog, vendor, rootDir,
                   binaries, launched, tpc, zw, dist, wg, cmds, assets, tmp>>

----------------------------------------------------------------------------
(* pack: the goroutines                                                     *)

\* The statements of the goroutine body, in order
BodySteps == <<"create", "readme", "binary", "licenses">>

\* The deferred calls as they would run with defer wg.Done() registered last
DeferOrderDoneFirst == <<"done", "closeW", "closeF">>

\* The deferred calls in the order they run: defer wg.Done() is registered
\* first, defer f.Close() second, defer w.Close() last, and deferred calls
\* run last-in first-out
DeferOrder == <<"closeW", "closeF", "done">>

TaskSteps == BodySteps \o DeferOrder

Step(i) == IF tpc[i] <= Len(TaskSteps) THEN TaskSteps[tpc[i]] ELSE "finished"

\* The zip a goroutine creates for binary b: base + ".zip" with
\* base = strings.TrimSuffix(b, filepath.Ext(b))
ZipName(b) == TrimSuffix(b, Ext(b)) \o <<".", "z", "i", "p">>

\* for _, bin := range binaries { wg.Add(1); go func(b string) {...}(bin.Name()) }
Launch ==
    /\ Running
    /\ pc = "launch"
    /\ launched < Len(binaries)
    /\ wg' = wg + 1
    /\ launched' = launched + 1
    /\ tpc' = Append(tpc, 1)
    /\ zw' = Append(zw, <<>>)
    /\ UNCHANGED <<pc, exit, packFlag, releaseFlag, prerelease, manifest,
                   modulePath, projectName, logFile, version, changelog, vendor,
                   rootDir, files, binaries, dist, cmds, assets, msgs, tmp>>

TaskUnchanged ==
    UNCHANGED <<packFlag, releaseFlag, prerelease, manifest, modulePath,
                projectName, logFile, version, changelog, vendor, rootDir, files,
                binaries, launched, cmds, assets, tmp>>

Advance(i) == tpc' = [tpc EXCEPT ![i] = @ + 1]

\* os.Create(dist/base.zip): creates the file, or truncates it when it exists
TaskCreate(i) ==
    /\ Running
    /\ Step(i) = "create"
    /\ dist' = MapPut(dist, ZipName(binaries[i]), <<>>)
    /\ Advance(i)
    /\ UNCHANGED <<pc, exit, zw, wg, msgs>>
    /\ TaskUnchanged

\* w.Create(packReadmeName); io.Copy(to, readme)
TaskReadme(i) ==
    /\ Running
    /\ Step(i) = "readme"
    /\ zw' = [zw EXCEPT ![i] = Append(@, [kind |-> "readme",
                                          name |-> <<packReadmeName>>,
                                          from |-> <<>>])]
    /\ Advance(i)
    /\ UNCHANGED <<pc, exit, dist, wg, msgs>>
    /\ TaskUnchanged

\* w.Create(projectName + ext); copyToZip(to, bin/b)
TaskBinary(i) ==
    /\ Running
    /\ Step(i) = "binary"
    /\ zw' = [zw EXCEPT ![i] = Append(@, [kind |-> "binary",
                                          name |-> <<projectName \o Ext(binaries[i])>>,
                                          from |-> <<binDir, binaries[i]>>])]
    /\ Advance(i)
    /\ UNCHANGED <<pc, exit, dist, wg, msgs>>
    /\ TaskUnchanged

Written(i) == {zw[i][k].name : k \in {j \in DOMAIN zw[i] : zw[i][j].kind = "license"}}

\* One iteration of "for to, from := range files" (map order is arbitrary)
TaskLicense(i) ==
    /\ Running
    /\ Step(i) = "licenses"
    /\ \E to \in DOMAIN files \ Written(i) :
         zw' = [zw EXCEPT ![i] = Append(@, [kind |-> "license",
                                            name |-> to,
                                            from |-> files[to]])]
    /\ UNCHANGED <<pc, exit, tpc, dist, wg, msgs>>
    /\ TaskUnchanged

\* The range loop is over: the body ends and the deferred calls start
TaskBodyEnd(i) ==
    /\ Running
    /\ Step(i) = "licenses"
    /\ DOMAIN files \ Written(i) = {}
    /\ Advance(i)
    /\ UNCHANGED <<pc, exit, zw, dist, wg, msgs>>
    /\ TaskUnchanged

\* Any os.Create, w.Create, io.Copy or copyToZip of the body fails: logErr.Fatal
TaskFail(i) ==
    /\ Running
    /\ Step(i) \in {"create", "readme", "binary", "licenses"}
    /\ ~(Step(i) = "licenses" /\ DOMAIN files \ Written(i) = {})
    /\ ExitWith("1")
    /\ msgs' = Append(msgs, "pack: i/o error")
    /\ UNCHANGED <<tpc, zw, dist, wg>>
    /\ TaskUnchanged

\* What the file holds after a writer that started at offset 0 wrote new
Overlay(old, new) ==
    [k \in 1..(IF Len(old) > Len(new) THEN Len(old) ELSE Len(new)) |->
        IF k <= Len(new) THEN new[k] ELSE old[k]]

\* defer w.Close(): the buffered archive is flushed to the file
TaskCloseW(i) ==
    /\ Running
    /\ Step(i) = "closeW"
    /\ dist' = [dist EXCEPT ![ZipName(binaries[i])] = Overlay(@, zw[i])]
    /\ Advance(i)
    /\ UNCHANGED <<pc, exit, zw, wg, msgs>>
    /\ TaskUnchanged

\* defer f.Close()
TaskCloseF(i) ==
    /\ Running
    /\ Step(i) = "closeF"
    /\ Advance(i)
    /\ UNCHANGED <<pc, exit, zw, dist, wg, msgs>>
    /\ TaskUnchanged

\* defer wg.Done()
TaskDone(i) ==
    /\ Running
    /\ Step(i) = "done"
    /\ wg' = wg - 1
    /\ Advance(i)
    /\ UNCHANGED <<pc, exit, zw, dist, msgs>>
    /\ TaskUnchanged

Task == \E i \in 1..launched :
          \/ TaskCreate(i) \/ TaskReadme(i) \/ TaskBinary(i) \/ TaskLicense(i)
          \/ TaskBodyEnd(i) \/ TaskFail(i) \/ TaskCloseW(i) \/ TaskCloseF(i)
          \/ TaskDone(i)

\* wg.Wait() returns and pack returns to main
Wait ==
    /\ Running
    /\ pc = "launch"
    /\ launched = Len(binaries)
    /\ wg = 0
    /\ IF releaseFlag THEN pc' = "release" /\ exit' = exit ELSE MainReturns
    /\ UNCHANGED <<packFlag, releaseFlag, prerelease, manifest, modulePath,
                   projectName, logFile, version, changelog, vendor, rootDir,
                   files, binaries, launched, tpc, zw, dist, wg, cmds, assets,
                   msgs, tmp>>

----------------------------------------------------------------------------
(* release                                                                  *)

\* The early-exit test with the comparison off by one: len(assets) < 0
NoAssetsStrict(as) == Len(as) < 0

\* The early-exit test of release: len(assets) <= 0
NoAssets(as) == Len(as) <= 0

\* release going on to the tag deletion whatever "gh release delete" returned
AfterDeleteReleaseAlways(ok) == "deleteTag"

\* Where release goes after "gh release delete": on to the tag deletion when
\* it succeeded, os.Exit when it failed
AfterDeleteRelease(ok) == IF ok THEN "deleteTag" ELSE "exited"

\* The status release passes to os.Exit on its rollback paths
RollbackExit == "0"

ReleaseUnchanged ==
    UNCHANGED <<packFlag, releaseFlag, prerelease, manifest, modulePath,
                projectName, logFile, version, changelog, vendor, rootDir, files,
                binaries, launched, tpc, zw, dist, wg>>

\* The deferred os.Remove(tmp.Name()) runs, release returns, main returns
ReleaseReturns == tmp' = "removed" /\ MainReturns

\* ReadDir(dir) and the early exit when -p is set; then the notes are written
\* to a temporary file
ReleaseStart ==
    /\ Running
    /\ pc = "release"
    /\ LET as == IF packFlag THEN SortNames(DOMAIN dist) ELSE <<>>
       IN  /\ assets' = as
           /\ IF packFlag /\ NoAssets(as)
              THEN /\ msgs' = Append(msgs, "No assets in dist directory")
                   /\ ExitWith("0")
                   /\ tmp' = tmp
              ELSE \/ /\ tmp' = "present"
                      /\ pc' = "create"
                      /\ UNCHANGED <<exit, msgs>>
                   \/ /\ \E t \in {"none", "present"} : tmp' = t
                      /\ msgs' = Append(msgs, "temp file: i/o error")
                      /\ ExitWith("1")
    /\ cmds' = cmds
    /\ ReleaseUnchanged

\* gh release create <version> -t <version> -F <tmp> [-p]
ReleaseCreate ==
    /\ Running
    /\ pc = "create"
    /\ \E ok \in BOOLEAN :
         /\ cmds' = Append(cmds, [cmd |-> "gh release create",
                                  args |-> IF prerelease THEN <<"-p">> ELSE <<>>,
                                  ok |-> ok])
         /\ IF ~ok
            THEN /\ tmp' = "removed"
                 /\ msgs' = Append(msgs, "release create failed")
                 /\ ExitWith("1")
            ELSE /\ msgs' = msgs
                 /\ IF packFlag
                    THEN pc' = "upload" /\ UNCHANGED <<exit, tmp>>
                    ELSE ReleaseReturns
    /\ assets' = assets
    /\ ReleaseUnchanged

\* gh release upload <version> <assets...>
ReleaseUpload ==
    /\ Running
    /\ pc = "upload"
    /\ \E ok \in BOOLEAN :
         /\ cmds' = Append(cmds, [cmd |-> "gh release upload", args |-> assets,
                                  ok |-> ok])
         /\ IF ok
            THEN msgs' = msgs /\ ReleaseReturns
            ELSE /\ msgs' = Append(msgs, "Could not upload assets")
                 /\ pc' = "deleteRelease"
                 /\ UNCHANGED <<exit, tmp>>
    /\ assets' = assets
    /\ ReleaseUnchanged

\* gh release delete <version>
DeleteRelease ==
    /\ Running
    /\ pc = "deleteRelease"
    /\ \E ok \in BOOLEAN :
         /\ cmds' = Append(cmds, [cmd |-> "gh release delete", args |-> <<>>,
                                  ok |-> ok])
         /\ msgs' = Append(msgs, IF ok THEN "Release deleted"
                                 ELSE "Could not delete release")
         /\ pc' = AfterDeleteRelease(ok)
         /\ exit' = IF AfterDeleteRelease(ok) = "exited" THEN RollbackExit ELSE exit
    /\ UNCHANGED <<assets, tmp>>
    /\ ReleaseUnchanged

\* git push --delete <version>
DeleteTag ==
    /\ Running
    /\ pc = "deleteTag"
    /\ \E ok \in BOOLEAN :
         /\ cmds' = Append(cmds, [cmd |-> "git push --delete", args |-> <<>>,
                                  ok |-> ok])
         /\ msgs' = Append(msgs, IF ok THEN "Remote tag deleted"
                                 ELSE "Could not delete remote tag")
    /\ ExitWith(RollbackExit)
    /\ UNCHANGED <<assets, tmp>>
    /\ ReleaseUnchanged

----------------------------------------------------------------------------
(* Inputs                                                                   *)

File(lines) == [exists |-> TRUE, lines |-> lines]
NoFile == [exists |-> FALSE, lines |-> <<>>]

\* Lines of a go.mod: "module x/y", "module y", a blank line, "// c", "go 1"
ManifestLines == {<<"m", "o", "d", "u", "l", "e", " ", "x", "/", "y">>,
                  <<"m", "o", "d", "u", "l", "e", " ", "y">>,
                  <<>>,
                  <<"/", "/", " ", "c">>,
                  <<"g", "o", " ", "1">>}

Manifests == {NoFile} \cup {File(l) : l \in SeqsUpTo(ManifestLines, MaxManifestLines)}

DefaultManifest == File(<< <<"m", "o", "d", "u", "l", "e", " ", "x", "/", "y">> >>)

\* Lines of a changelog: "# 1", "# 0", "f", "g", a blank line, "# "
LogLines == {<<"#", " ", "1">>, <<"#", " ", "0">>, <<"f">>, <<"g">>, <<>>,
             <<"#", " ">>}

Changelogs == {NoFile} \cup {File(l) : l \in SeqsUpTo(LogLines, MaxLogLines)}

\* "# 1", "f", "# 0", "g"
DefaultLog == File(<< <<"#", " ", "1">>, <<"f">>, <<"#", " ", "0">>, <<"g">> >>)

LICENSE == <<"L", "I", "C", "E", "N", "S", "E">>

\* Files a vendor tree may hold
VendorFiles ==
    {<<vendorDir, <<"a">>, <<"b">>, LICENSE>>,
     <<vendorDir, <<"a">>, <<"b">>, ToLower(LICENSE)>>,
     <<vendorDir, <<"a">>, <<"b">>, <<"m", ".", "g", "o">>>>,
     <<vendorDir, <<"a">>, <<"b">>, ToLower(LICENSE) \o <<".", "g", "o">>>>,
     <<vendorDir, <<"a">>, <<"e", "x", "a", "m", "p", "l", "e", "s">>, LICENSE>>,
     <<vendorDir, <<"a">>, <<"s", "r", "c">>, <<"c">>, <<"N", "O", "T", "I", "C", "E">>>>,
     <<vendorDir, <<"a">>, <<"b", "i", "n">>>>}

Vendors == {T \in SUBSET VendorFiles : Cardinality(T) <= MaxVendorFiles}

\* Listings of the project root
Roots == {<<>>, <<LICENSE>>, << <<"g", "o", ".", "m", "o", "d">>, <<"N", "O", "T", "I", "C", "E">> >>}

\* A zip a previous run left in dist
StaleDist == [x \in {<<"o", ".", "z", "i", "p">>} |-> <<>>]

InitWith(ms, ls, vs, rs, pf, rf) ==
    /\ pc = "projectInfo"
    /\ exit = "none"
    /\ packFlag \in pf
    /\ releaseFlag \in rf
    /\ prerelease \in BOOLEAN
    /\ manifest \in ms
    /\ modulePath = <<>>
    /\ projectName = <<>>
    /\ logFile \in ls
    /\ version = <<>>
    /\ changelog = <<>>
    /\ vendor \in vs
    /\ rootDir \in rs
    /\ files = EmptyMap
    /\ binaries = <<>>
    /\ launched = 0
    /\ tpc = <<>>
    /\ zw = <<>>
    /\ dist \in {EmptyMap, StaleDist}
    /\ wg = 0
    /\ cmds = <<>>
    /\ assets = <<>>
    /\ msgs = <<>>
    /\ tmp = "none"

----------------------------------------------------------------------------
(* Specifications                                                           *)

\* The whole program on the default manifest and changelog
Init == InitWith({DefaultManifest}, {DefaultLog},
                 {{}, {<<vendorDir, <<"a">>, <<"b">>, LICENSE>>}},
                 {<<>>, <<LICENSE>>}, BOOLEAN, BOOLEAN)

Next ==
    \/ ProjectInfo
    \/ Changes
    \/ PackBuild
    \/ PackVendor
    \/ Collect
    \/ Launch
    \/ Task
    \/ Wait
    \/ ReleaseStart
    \/ ReleaseCreate
    \/ ReleaseUpload
    \/ DeleteRelease
    \/ DeleteTag

Spec == Init /\ [][Next]_vars

\* projectInfo over every manifest
InitInfo == InitWith(Manifests, {DefaultLog}, {{}}, {<<>>}, {FALSE}, {FALSE})

NextInfo == ProjectInfo

SpecInfo == InitInfo /\ [][NextInfo]_vars

\* changes over every changelog
InitChanges == InitWith({DefaultManifest}, Changelogs, {{}}, {<<>>}, {FALSE}, {FALSE})

NextChanges == ProjectInfo \/ Changes

SpecChanges == InitChanges /\ [][NextChanges]_vars

\* the license collector over every vendor tree and root listing
InitCollect == InitWith({DefaultManifest}, {DefaultLog}, Vendors, Roots, {TRUE}, {FALSE})

NextCollect == ProjectInfo \/ Changes \/ PackBuild \/ PackVendor \/ Collect

SpecCollect == InitCollect /\ [][NextCollect]_vars

----------------------------------------------------------------------------
(* Properties of release                                                    *)

CmdIdx(c) == {i \in DOMAIN cmds : cmds[i].cmd = c}

UploadFailed == \E i \in CmdIdx("gh release upload") : ~cmds[i].ok

\* The commands of the release publisher: the release-hosting CLI and the
\* remote-tag deletion
PublisherCmds == {"gh release create", "gh release upload", "gh release delete",
                  "git push --delete"}

\* C1: when the asset upload fails, release-delete is invoked next and the
\* remote-tag deletion after it; the tag deletion is invoked only directly
\* after a release-delete that succeeded, and after a failed release-delete
\* nothing more is invoked.
C1_RollbackOrder ==
    /\ \A i \in CmdIdx("gh release delete") :
         i > 1 /\ cmds[i - 1].cmd = "gh release upload" /\ ~cmds[i - 1].ok
    /\ \A i \in CmdIdx("git push --delete") :
         i > 1 /\ cmds[i - 1].cmd = "gh release delete" /\ cmds[i - 1].ok
    /\ \A i \in CmdIdx("gh release delete") : ~cmds[i].ok => i = Len(cmds)
    /\ (~Running /\ UploadFailed) =>
         /\ CmdIdx("gh release delete") # {}
         /\ \A i \in CmdIdx("gh release delete") :
              cmds[i].ok => (i < Len(cmds) /\ cmds[i + 1].cmd = "git push --delete")

\* The upload failed, the release was deleted and the tag deletion was invoked
C1_Witness ==
    /\ ~Running
    /\ UploadFailed
    /\ cmds[Len(cmds)].cmd = "git push --delete"

\* The upload failed and release-delete failed: the process has ended
C1_WitnessDeleteFailed ==
    /\ ~Running
    /\ UploadFailed
    /\ cmds[Len(cmds)].cmd = "gh release delete"

NoPublisherCmd == \A i \in DOMAIN cmds : cmds[i].cmd \notin PublisherCmds

\* C2: with -r and -p and no file in dist, release exits with status 0 after
\* the "No assets" message, before the release is created: no release
\* create, upload, release delete or tag delete is ever issued and the notes
\* file is never written.
C2_NoAssetsExit ==
    /\ [](("No assets in dist directory" \in {msgs[i] : i \in DOMAIN msgs}) =>
             /\ pc = "exited" /\ exit = "0"
             /\ packFlag /\ releaseFlag
             /\ msgs[Len(msgs)] = "No assets in dist directory"
             /\ NoPublisherCmd
             /\ tmp = "none")
    /\ []((packFlag /\ DOMAIN dist = {}) =>
             /\ pc \notin {"create", "upload", "deleteRelease", "deleteTag"}
             /\ NoPublisherCmd)
    /\ [][(pc = "release" /\ packFlag /\ DOMAIN dist = {}) =>
             /\ pc' = "exited" /\ exit' = "0"
             /\ msgs' = Append(msgs, "No assets in dist directory")
             /\ cmds' = cmds]_vars

\* release found dist empty and exited
C2_Witness ==
    /\ packFlag /\ releaseFlag
    /\ pc = "exited" /\ exit = "0"
    /\ DOMAIN dist = {}
    /\ msgs # <<>> /\ msgs[Len(msgs)] = "No assets in dist directory"
    /\ \E i \in DOMAIN cmds : cmds[i].cmd = "go mod vendor"

\* C10 as stated: a failed rollback step ends the process in a failure exit,
\* never a success exit, and it is the last step attempted.
C10_RollbackFailureIsFatal ==
    \A i \in CmdIdx("gh release delete") \cup CmdIdx("git push --delete") :
        (~Running /\ ~cmds[i].ok) => (exit # "0" /\ i = Len(cmds))

----------------------------------------------------------------------------
(* Properties of pack                                                       *)

StepIdx(s) == CHOOSE k \in DOMAIN TaskSteps : TaskSteps[k] = s

WriterClosed(i) == tpc[i] > StepIdx("closeW")
FileClosed(i) == tpc[i] > StepIdx("closeF")
TaskFinished(i) == Step(i) = "finished"

\* pack has returned to main: main is in release, or has returned, or release
\* has already issued a command
PackReturned ==
    /\ packFlag
    /\ \/ pc \in {"release", "create", "upload", "deleteRelease", "deleteTag",
                  "returned"}
       \/ ~NoPublisherCmd
       \/ assets # <<>>

\* C6: once pack has returned, every goroutine was launched and has finished,
\* its zip writer and its file closed; so release lists and uploads dist only
\* when no goroutine runs and every archive is finalized.
C6_Barrier ==
    PackReturned =>
        /\ launched = Len(binaries)
        /\ wg = 0
        /\ \A i \in DOMAIN binaries :
             WriterClosed(i) /\ FileClosed(i) /\ TaskFinished(i)

\* release is about to list dist after two goroutines ran
C6_Witness ==
    /\ pc = "release"
    /\ packFlag
    /\ Len(binaries) >= 2
    /\ \A i \in DOMAIN binaries : TaskFinished(i)

Count(entries, kind) == Cardinality({k \in DOMAIN entries : entries[k].kind = kind})

\* C4 as stated: after pack has run over N binaries with L licenses, dist
\* holds exactly N zips, each with 1 readme, 1 binary and L license entries.
C4_OneZipPerArtifact ==
    PackReturned =>
        /\ Cardinality(DOMAIN dist) = Len(binaries)
        /\ \A z \in DOMAIN dist :
             /\ Len(dist[z]) = 2 + Cardinality(DOMAIN files)
             /\ Count(dist[z], "readme") = 1
             /\ Count(dist[z], "binary") = 1
             /\ Count(dist[z], "license") = Cardinality(DOMAIN files)

\* C5 as stated: the goroutines pack launched have pairwise distinct output
\* paths.
C5_DistinctOutputs ==
    \A i, j \in 1..launched :
        i # j => ZipName(binaries[i]) # ZipName(binaries[j])

----------------------------------------------------------------------------
(* Properties of changes                                                    *)

HeadingIdx(lines) == {i \in DOMAIN lines : IsHeading(lines[i])}

FirstHeading(lines) == CHOOSE i \in HeadingIdx(lines) : \A j \in HeadingIdx(lines) : i <= j

SecondHeading(lines) ==
    CHOOSE i \in HeadingIdx(lines) \ {FirstHeading(lines)} :
        \A j \in HeadingIdx(lines) \ {FirstHeading(lines)} : i <= j

\* The lines strictly between the first and the second heading
Between(lines) == SubSeq(lines, FirstHeading(lines) + 1, SecondHeading(lines) - 1)

RECURSIVE JoinLines(_)
JoinLines(ls) ==
    IF ls = <<>> THEN <<>>
    ELSE IF Len(ls) = 1 THEN ls[1]
    ELSE ls[1] \o <<NL>> \o JoinLines(Tail(ls))

ChangesRan == pc \notin {"projectInfo", "changes"} /\ logFile.exists

\* C3 as stated: for a changelog with at least two headings, the notes are
\* exactly the lines strictly between the first and the second heading,
\* joined by newlines; no line before the first heading is in the notes.
C3_NotesBetweenHeadings ==
    (ChangesRan /\ Cardinality(HeadingIdx(logFile.lines)) >= 2) =>
        changelog = JoinLines(Between(logFile.lines))

----------------------------------------------------------------------------
(* Properties of projectInfo                                                *)

\* A line "module <path>": its first field is module and a second follows
ValidModuleLine(t) == Len(Fields(t)) >= 2 /\ Fields(t)[1] = ModuleWord

ModuleIdx(lines) == {i \in DOMAIN lines : ValidModuleLine(lines[i])}

FirstModulePath(lines) ==
    Fields(lines[CHOOSE i \in ModuleIdx(lines) : \A j \in ModuleIdx(lines) : i <= j])[2]

\* The part of p after its last "/" (all of p when it has none)
LastSegment(p) ==
    LET slashes == {i \in DOMAIN p : p[i] = "/"}
    IN  IF slashes = {} THEN p
        ELSE SubSeq(p, (CHOOSE i \in slashes : \A j \in slashes : j <= i) + 1, Len(p))

\* C8 as stated: for every manifest with a valid module line, blank or
\* comment lines before it included, projectInfo ends normally with
\* modulePath the path and projectName its last segment.
C8_ProjectNameIsLastSegment ==
    (pc # "projectInfo" /\ manifest.exists /\ ModuleIdx(manifest.lines) # {}) =>
        /\ pc = "changes"
        /\ exit = "none"
        /\ modulePath = FirstModulePath(manifest.lines)
        /\ projectName = LastSegment(modulePath)

----------------------------------------------------------------------------
(* Properties of the license collector                                      *)

Collected == pc = "launch"

\* Entries of the map that collect recorded from the vendor tree
VendorKeys == {k \in DOMAIN files : files[k] \in vendor}

\* C7 as stated: no file whose name or extension is excluded, and no file
\* below a directory with an excluded name, is recorded in the license map.
C7_ExcludedSkipped ==
    Collected =>
        \A k \in VendorKeys :
            /\ \A n \in DOMAIN files[k] : files[k][n] \notin noWalk
            /\ Ext(Base(files[k])) \notin noWalk

VendorABLicense == <<vendorDir, <<"a">>, <<"b">>, LICENSE>>

NameBA == <<"b", "-", "a", "-", "l", "i", "c", "e", "n", "s", "e">>
NameAB == <<"a", "-", "b", "-", "l", "i", "c", "e", "n", "s", "e">>

\* C9 as stated: the license file vendor/a/b/LICENSE is recorded under the
\* target name b-a-license.
C9_TargetNameBA ==
    (Collected /\ VendorABLicense \in vendor) =>
        <<packLicDir, NameBA>> \in DOMAIN files

\* C9 amended: the license file vendor/a/b/LICENSE is recorded under the
\* target name a-b-license, and every license recorded from the vendor tree
\* has the target name <grandparent>-<parent>-<lower-cased file name> of its
\* own path, under licenses-and-notices.
C9_TargetNameAB ==
    Collected =>
        /\ VendorABLicense \in vendor =>
             /\ <<packLicDir, NameAB>> \in DOMAIN files
             /\ <<packLicDir, NameBA>> \notin DOMAIN files
             /\ ToLower(Base(files[<<packLicDir, NameAB>>])) = ToLower(LICENSE)
        /\ \A k \in VendorKeys :
             LET f == files[k]
             IN  /\ Len(f) >= 3
                 /\ k = <<packLicDir,
                          f[Len(f) - 2] \o <<"-">> \o f[Len(f) - 1] \o <<"-">>
                              \o ToLower(f[Len(f)])>>

\* collect has recorded vendor/a/b/LICENSE itself
C9_Witness ==
    /\ Collected
    /\ VendorABLicense \in vendor
    /\ <<packLicDir, NameAB>> \in DOMAIN files
    /\ files[<<packLicDir, NameAB>>] = VendorABLicense

----------------------------------------------------------------------------
(* Properties of the notes file                                             *)

\* release has written the notes file and invoked "gh release create"
ReleaseInvoked == CmdIdx("gh release create") # {}

\* C11 as stated: once release has created the notes file, the file has been
\* removed whenever release has returned or the process has ended: after a
\* failed release creation, after a successful release, and after a failed
\* upload whether the rollback succeeded or one of its steps failed.
C11_NotesFileRemoved ==
    (~Running /\ ReleaseInvoked) => tmp = "removed"

====
